---- MODULE Spec2Model ----
(***************************************************************************)
(* A model of dirsync (gkarolyi/dirsync).  The repository holds two        *)
(* generations of the synchroniser:                                        *)
(*   - src/src/sync.go: one global status, SyncDirectories(source, dest)   *)
(*     with the rsync strategy and the syncWithFileCopy fallback walk;     *)
(*   - src/unnamed/part_004 (second file, from line 239): the Sync task    *)
(*     with its own loop goroutine, TriggerSync / PauseSync / ResumeSync,  *)
(*     the streaming rsync attempt and the SyncManager registry.           *)
(* Both are modelled.  SpecCopy runs the first generation over a small     *)
(* file system; SpecTask runs one Sync task of the second generation       *)
(* through every path of its attempt; Spec runs the registry with the      *)
(* tasks the start-up routine builds from the configured pairs.            *)
(*                                                                         *)
(* Instants are kept as offsets from the current instant: 0 is "now",      *)
(* a positive offset lies in the future, Past stands for every earlier     *)
(* instant.  Tick moves the clock by one unit, which lowers every offset.  *)
(***************************************************************************)
EXTENDS Integers, Sequences, FiniteSets, TLC

VARIABLES
    \* ---- first generation (src/src/sync.go) ----
    status,     \* the global Status record
    srcFS,      \* the source tree: path -> entry
    dstFS,      \* the destination tree: path -> entry
    dst0,       \* the destination tree as it was before the first attempt
    rsyncOK,    \* whether exec.LookPath("rsync") succeeds
    run,        \* the position of SyncDirectories and its locals
    \* ---- second generation (src/unnamed/part_004, from line 239) ----
    config,     \* config.SyncPairs: the configured pairs, each a string
    boot,       \* StartSyncProcess: the pair it is at, and the task to start
    Syncs,      \* SyncManager.Syncs: the registered Sync tasks, in order
    loops,      \* the goroutines Sync.Start launched, with their locals
    api,        \* the registry call in progress (it holds the read lock)
    calls,      \* the number of API calls made so far
    last,       \* the API call that returned in the latest step, if any
    envSrc,     \* what the environment lets a probe of a source path find
    trig        \* per task: TriggerSync has returned and no attempt has begun since

copyVars == <<status, srcFS, dstFS, dst0, rsyncOK, run>>

engVars == <<config, boot, Syncs, loops, api, calls, last, envSrc, trig>>

vars == <<status, srcFS, dstFS, dst0, rsyncOK, run,
          config, boot, Syncs, loops, api, calls, last, envSrc, trig>>

--------------------------------------------------------------------------
(* Bounds of the model *)

\* file contents are 1..NData
NData == 2

\* the number of pairs in the configuration
MaxPairs == 2

\* the number of API calls (trigger, pause, resume) in a run
MaxCalls == 1

\* the number of lines the subprocess writes to each of its streams
MaxLines == 1

\* attempts of a loop are counted up to this number
MaxAttempts == 2

--------------------------------------------------------------------------
(* The file system: paths relative to a root, "." being the root itself.   *)

Root == "."

\* the relative paths below a root, in the lexical order filepath.Walk visits
WalkOrder == <<".", "a", "d", "d/b">>

Paths == {WalkOrder[i] : i \in 1..Len(WalkOrder)}

Parent(p) == IF p = "d/b" THEN "d" ELSE Root

None == [kind |-> "none", data |-> 0, mode |-> 0]

File(c, m) == [kind |-> "file", data |-> c, mode |-> m]

Dir(m) == [kind |-> "dir", data |-> 0, mode |-> m]

\* permission bits: 0644 and 0600 for files, 0755 and 0700 for directories
FileModes == {644, 600}

DirModes == {755, 700}

Entries == {None} \cup {File(c, m) : c \in 1..NData, m \in FileModes}
                  \cup {Dir(m) : m \in DirModes}

\* the paths that have a child among Paths; only these are directories in
\* the trees the model starts from
Inner == {Parent(p) : p \in Paths \ {Root}}

\* a tree: the root is absent or a directory (of mode 0755), and an entry
\* exists only inside an existing directory
IsTree(fs) ==
    /\ fs[Root] \in {None, Dir(755)}
    /\ \A p \in Paths \ {Root} :
         /\ fs[p].kind # "none" => fs[Parent(p)].kind = "dir"
         /\ fs[p].kind = "dir" => p \in Inner

Trees == {fs \in [Paths -> Entries] : IsTree(fs)}

--------------------------------------------------------------------------
(* Instants, as offsets from now *)

\* config.SyncInterval, in clock units
Interval == 1

\* every instant before now
Past == 0 - 1

\* time.Time{}: the zero instant
ZeroTime == 0 - 2

Now == 0

--------------------------------------------------------------------------
(* File-system calls of the Go standard library, as the code uses them *)

Children(p) == {q \in Paths \ {Root} : Parent(q) = p}

IsEmptyDir(fs, p) == \A q \in Children(p) : fs[q].kind = "none"

\* os.MkdirAll(path, perm): nothing to do for an existing directory, an
\* error for a file in the way, otherwise the missing parents and then
\* the directory itself are created with perm
RECURSIVE MkdirAll(_, _, _)
MkdirAll(fs, p, perm) ==
    IF fs[p].kind = "dir" THEN [fs |-> fs, err |-> FALSE]
    ELSE IF fs[p].kind = "file" THEN [fs |-> fs, err |-> TRUE]
    ELSE IF p = Root THEN [fs |-> [fs EXCEPT ![p] = Dir(perm)], err |-> FALSE]
    ELSE LET up == MkdirAll(fs, Parent(p), perm)
         IN  IF up.err THEN up
             ELSE [fs |-> [up.fs EXCEPT ![p] = Dir(perm)], err |-> FALSE]

\* the points at which copyFile can fail on an I/O error
CopyFaults == {"none", "open", "create", "copy", "chmod"}

\* the mode os.Create gives a new file (0666 under the usual umask 022)
CreateMode == 644

\* dest after os.Create(dest): an existing file is truncated and keeps
\* its mode, a new file is empty
Created(dfs, p) ==
    [dfs EXCEPT ![p] = IF dfs[p].kind = "file" THEN File(0, dfs[p].mode)
                       ELSE File(0, CreateMode)]

\* a mutant of copyFile: the permissions are not re-applied
CopyFileNoChmod(sfs, dfs, p, mode, fault) ==
    IF fault = "open" \/ sfs[p].kind # "file" THEN [fs |-> dfs, err |-> TRUE]
    ELSE IF fault = "create" \/ dfs[Parent(p)].kind # "dir" \/ dfs[p].kind = "dir"
    THEN [fs |-> dfs, err |-> TRUE]
    ELSE IF fault = "copy" THEN [fs |-> Created(dfs, p), err |-> TRUE]
    ELSE [fs |-> [dfs EXCEPT ![p] = File(sfs[p].data, Created(dfs, p)[p].mode)],
          err |-> FALSE]

\* copyFile(src, dest, mode); p is the path of both relative to their roots
CopyFile(sfs, dfs, p, mode, fault) ==
    IF fault = "open" \/ sfs[p].kind # "file" THEN [fs |-> dfs, err |-> TRUE]
    ELSE IF fault = "create" \/ dfs[Parent(p)].kind # "dir" \/ dfs[p].kind = "dir"
    THEN [fs |-> dfs, err |-> TRUE]
    ELSE IF fault = "copy" THEN [fs |-> Created(dfs, p), err |-> TRUE]
    ELSE IF fault = "chmod"
    THEN [fs |-> [dfs EXCEPT ![p] = File(sfs[p].data, Created(dfs, p)[p].mode)],
          err |-> TRUE]
    ELSE [fs |-> [dfs EXCEPT ![p] = File(sfs[p].data, mode)], err |-> FALSE]

--------------------------------------------------------------------------
(* The external mirroring tool.  rsync is not code of the repository: its  *)
(* effect is modelled from the flags the code passes (and from the         *)
(* comments that explain them at sync.go:81-87).                           *)

\* exec.Command("rsync", "-avzP", sourcePath, destPath) with --delete added
RsyncArgsWithDelete == <<"-avzP", "--delete", "src/", "dst">>

\* the arguments of exec.Command("rsync", "-avzP", sourcePath, destPath)
RsyncArgs == <<"-avzP", "src/", "dst">>

HasArg(args, a) == \E i \in 1..Len(args) : args[i] = a

\* rsync --delete: the receiver removes what the sender does not have
RsyncDelete(sfs, dfs) ==
    [p \in Paths |-> IF p # Root /\ sfs[p].kind = "none" THEN None ELSE dfs[p]]

\* the transfer of one entry in archive mode (-a: contents and permission
\* bits); a non-empty directory in the way of a file is not removed
RsyncEntry(sfs, dfs, p) ==
    IF sfs[p].kind = "none" \/ p = Root THEN [fs |-> dfs, err |-> FALSE]
    ELSE IF dfs[Parent(p)].kind # "dir" THEN [fs |-> dfs, err |-> TRUE]
    ELSE IF sfs[p].kind = "dir"
    THEN [fs |-> [dfs EXCEPT ![p] = Dir(sfs[p].mode)], err |-> FALSE]
    ELSE IF dfs[p].kind = "dir" /\ ~IsEmptyDir(dfs, p)
    THEN [fs |-> dfs, err |-> TRUE]
    ELSE [fs |-> [dfs EXCEPT ![p] = File(sfs[p].data, sfs[p].mode)], err |-> FALSE]

\* the entries WalkOrder[1..k] transferred one after the other
RECURSIVE RsyncUpTo(_, _, _)
RsyncUpTo(sfs, dfs, k) ==
    IF k = 0 THEN [fs |-> dfs, err |-> FALSE]
    ELSE LET before == RsyncUpTo(sfs, dfs, k - 1)
             this == RsyncEntry(sfs, before.fs, WalkOrder[k])
         IN  [fs |-> this.fs, err |-> before.err \/ this.err]

\* one run of rsync that gets as far as entry k: the destination it
\* leaves and whether it exits with status 0
Rsync(args, sfs, dfs, k) ==
    LET start == IF HasArg(args, "--delete") THEN RsyncDelete(sfs, dfs) ELSE dfs
        r == RsyncUpTo(sfs, start, k)
    IN  [fs |-> r.fs, ok |-> k = Len(WalkOrder) /\ ~r.err]

--------------------------------------------------------------------------
(* First generation: SyncDirectories(sourcePath, destPath) of sync.go      *)

NoPair == [tag |-> "", path |-> "", n |-> 0]

\* main(): Status{IsSyncing: false, LastSync: now, NextSyncTime: now + interval}
StatusInit ==
    [IsSyncing |-> FALSE, LastSync |-> Now, NextSyncTime |-> Interval,
     CurrentPair |-> NoPair, SourcePath |-> "", DestinationPath |-> "",
     LastError |-> ""]

RunIdle == [pc |-> "idle", i |-> 0, fileCount |-> 0, err |-> FALSE, ret |-> "none"]

\* setError(errMsg) of sync.go
OldSetError(st, errMsg) ==
    [st EXCEPT !.IsSyncing = FALSE, !.LastError = errMsg,
               !.CurrentPair = [tag |-> "Error", path |-> errMsg, n |-> 0]]

\* the status update that ends a successful no-op or rsync run
OldDone(st, pair) ==
    [st EXCEPT !.IsSyncing = FALSE, !.LastSync = Now, !.NextSyncTime = Interval,
               !.CurrentPair = pair]

OldReturn(r, value) == [r EXCEPT !.pc = "idle", !.ret = value]

\* sync.go:18-24
OldBegin ==
    /\ run.pc = "idle"
    /\ status' = [status EXCEPT !.IsSyncing = TRUE,
                                !.CurrentPair = [tag |-> "src:dst", path |-> "", n |-> 0],
                                !.SourcePath = "src", !.DestinationPath = "dst",
                                !.LastError = ""]
    /\ run' = [RunIdle EXCEPT !.pc = "stat"]
    /\ UNCHANGED <<srcFS, dstFS, dst0, rsyncOK>>
    /\ UNCHANGED engVars

\* sync.go:29-54: os.Stat(sourcePath), isDirEmpty(sourcePath)
OldCheckSource ==
    /\ run.pc = "stat"
    /\ IF srcFS[Root].kind = "none"
       THEN /\ status' = OldSetError(status, "Source path does not exist")
            /\ run' = OldReturn(run, "err")
       ELSE \E probe \in {"ok", "error"} :
              IF probe = "error"
              THEN /\ status' = OldSetError(status, "Error checking if source directory is empty")
                   /\ run' = OldReturn(run, "err")
              ELSE IF IsEmptyDir(srcFS, Root)
              THEN /\ status' = OldDone(status, status.CurrentPair)
                   /\ run' = OldReturn(run, "nil")
              ELSE /\ status' = status
                   /\ run' = [run EXCEPT !.pc = "mkdst"]
    /\ UNCHANGED <<srcFS, dstFS, dst0, rsyncOK>>
    /\ UNCHANGED engVars

\* sync.go:57-65: os.MkdirAll(destPath, 0755) when the destination is absent
OldMakeDest ==
    /\ run.pc = "mkdst"
    /\ IF dstFS[Root].kind = "none"
       THEN \E ok \in BOOLEAN :
              IF ok
              THEN /\ dstFS' = MkdirAll(dstFS, Root, 755).fs
                   /\ status' = status
                   /\ run' = [run EXCEPT !.pc = "look"]
              ELSE /\ dstFS' = dstFS
                   /\ status' = OldSetError(status, "Failed to create destination directory")
                   /\ run' = OldReturn(run, "err")
       ELSE /\ dstFS' = dstFS
            /\ status' = status
            /\ run' = [run EXCEPT !.pc = "look"]
    /\ UNCHANGED <<srcFS, dst0, rsyncOK>>
    /\ UNCHANGED engVars

\* sync.go:68-74: exec.LookPath("rsync"); on failure fall back to the copy
OldLookPath ==
    /\ run.pc = "look"
    /\ run' = [run EXCEPT !.pc = IF rsyncOK THEN "spawn" ELSE "copy"]
    /\ UNCHANGED <<status, srcFS, dstFS, dst0, rsyncOK>>
    /\ UNCHANGED engVars

\* sync.go:87-112: the pipes and cmd.Start(), each of which may fail
OldSpawn ==
    /\ run.pc = "spawn"
    /\ \E out \in {"ok", "pipe", "start"} :
         IF out = "ok"
         THEN /\ status' = status
              /\ run' = [run EXCEPT !.pc = "rsync"]
         ELSE /\ status' = OldSetError(status, IF out = "pipe"
                                              THEN "Failed to create stdout pipe"
                                              ELSE "Failed to start rsync")
              /\ run' = OldReturn(run, "err")
    /\ UNCHANGED <<srcFS, dstFS, dst0, rsyncOK>>
    /\ UNCHANGED engVars

\* sync.go:114-176: the subprocess runs to its exit; both readers end, then
\* cmd.Wait() classifies the exit status
OldRsync ==
    /\ run.pc = "rsync"
    /\ \E k \in 0..Len(WalkOrder) :
         LET r == Rsync(RsyncArgs, srcFS, dstFS, k)
         IN  /\ dstFS' = r.fs
             /\ IF r.ok
                THEN /\ status' = OldDone(status, [tag |-> "Sync completed", path |-> "", n |-> 0])
                     /\ run' = OldReturn(run, "nil")
                ELSE /\ status' = OldSetError(status, "rsync error")
                     /\ run' = OldReturn(run, "err")
    /\ UNCHANGED <<srcFS, dst0, rsyncOK>>
    /\ UNCHANGED engVars

\* sync.go:195-222: syncWithFileCopy sets the paths and probes the source
\* for emptiness once more
CopyBegin ==
    /\ run.pc = "copy"
    /\ \E probe \in {"ok", "error"} :
         IF probe = "error"
         THEN /\ status' = OldSetError([status EXCEPT !.SourcePath = "src",
                                                      !.DestinationPath = "dst"],
                                       "Error checking if source directory is empty")
              /\ run' = OldReturn(run, "err")
         ELSE IF IsEmptyDir(srcFS, Root)
         THEN /\ status' = OldDone([status EXCEPT !.SourcePath = "src",
                                                  !.DestinationPath = "dst"],
                                   status.CurrentPair)
              /\ run' = OldReturn(run, "nil")
         ELSE /\ status' = [status EXCEPT !.SourcePath = "src", !.DestinationPath = "dst"]
              /\ run' = [run EXCEPT !.pc = "walk", !.i = 1, !.fileCount = 0, !.err = FALSE]
    /\ UNCHANGED <<srcFS, dstFS, dst0, rsyncOK>>
    /\ UNCHANGED engVars

\* a mutant of the walk's visit: a failed entry does not stop the walk
VisitIgnoringErrors(sfs, dfs, p, fault) ==
    IF p = Root THEN [fs |-> dfs, err |-> FALSE, file |-> FALSE]
    ELSE IF sfs[p].kind = "dir"
    THEN [fs |-> MkdirAll(dfs, p, sfs[p].mode).fs, err |-> FALSE, file |-> FALSE]
    ELSE [fs |-> CopyFile(sfs, dfs, p, sfs[p].mode, fault).fs, err |-> FALSE, file |-> TRUE]

\* sync.go:226-263: the callback of filepath.Walk on the source entry p
Visit(sfs, dfs, p, fault) ==
    IF p = Root THEN [fs |-> dfs, err |-> FALSE, file |-> FALSE]
    ELSE IF sfs[p].kind = "dir"
    THEN LET r == MkdirAll(dfs, p, sfs[p].mode)
         IN  [fs |-> r.fs, err |-> r.err, file |-> FALSE]
    ELSE LET r == CopyFile(sfs, dfs, p, sfs[p].mode, fault)
         IN  [fs |-> r.fs, err |-> r.err, file |-> TRUE]

\* filepath.Walk: the entries of the source in lexical order, each handed
\* to the callback, until one returns an error
CopyWalk ==
    /\ run.pc = "walk"
    /\ run.i <= Len(WalkOrder)
    /\ LET p == WalkOrder[run.i]
       IN  IF srcFS[p].kind = "none"
           THEN /\ run' = [run EXCEPT !.i = @ + 1]
                /\ UNCHANGED <<status, dstFS>>
           ELSE \E fault \in CopyFaults :
                  LET r == Visit(srcFS, dstFS, p, fault)
                  IN  /\ dstFS' = r.fs
                      /\ status' = IF r.file
                                   THEN [status EXCEPT !.CurrentPair =
                                            [tag |-> "Copying", path |-> p, n |-> 0]]
                                   ELSE status
                      /\ run' = [run EXCEPT !.i = IF r.err THEN Len(WalkOrder) + 1 ELSE @ + 1,
                                            !.fileCount = IF r.file THEN @ + 1 ELSE @,
                                            !.err = r.err]
    /\ UNCHANGED <<srcFS, dst0, rsyncOK>>
    /\ UNCHANGED engVars

\* a mutant of the status update after the walk: the error is not recorded
CopyEndNoError ==
    /\ run.pc = "walk"
    /\ run.i > Len(WalkOrder)
    /\ status' = [status EXCEPT
                    !.IsSyncing = FALSE, !.LastSync = Now, !.NextSyncTime = Interval,
                    !.CurrentPair = [tag |-> "Completed", path |-> "", n |-> run.fileCount]]
    /\ run' = OldReturn(run, IF run.err THEN "err" ELSE "nil")
    /\ UNCHANGED <<srcFS, dstFS, dst0, rsyncOK>>
    /\ UNCHANGED engVars

\* sync.go:265-281: the status update after the walk
CopyEnd ==
    /\ run.pc = "walk"
    /\ run.i > Len(WalkOrder)
    /\ status' = [status EXCEPT
                    !.IsSyncing = FALSE, !.LastSync = Now, !.NextSyncTime = Interval,
                    !.LastError = IF run.err THEN "walk error" ELSE @,
                    !.CurrentPair = IF run.err
                                    THEN [tag |-> "Error", path |-> "walk error", n |-> 0]
                                    ELSE [tag |-> "Completed", path |-> "", n |-> run.fileCount]]
    /\ run' = OldReturn(run, IF run.err THEN "err" ELSE "nil")
    /\ UNCHANGED <<srcFS, dstFS, dst0, rsyncOK>>
    /\ UNCHANGED engVars

--------------------------------------------------------------------------
(* Second generation: the Sync task of part_004                            *)

\* time.Sleep(1 * time.Second) of a paused loop, in clock units
Backoff == 1

\* one clock unit later: offsets shrink, Past and time.Time{} stay
Age(o) == IF o = ZeroTime THEN ZeroTime ELSE IF o > Past THEN o - 1 ELSE Past

\* strings.Split(s, sep), on strings held as sequences of characters
RECURSIVE Split(_, _)
Split(s, sep) ==
    IF \A i \in 1..Len(s) : s[i] # sep THEN <<s>>
    ELSE LET k == CHOOSE i \in 1..Len(s) :
                     s[i] = sep /\ \A j \in 1..(i - 1) : s[j] # sep
         IN  <<SubSeq(s, 1, k - 1)>> \o Split(SubSeq(s, k + 1, Len(s)), sep)

\* fmt.Sprintf("%s:%s", sourcePath, destPath)
MakeID(sourcePath, destPath) == sourcePath \o <<":">> \o destPath

\* a mutant of NewSync: the first run is scheduled one interval ahead
NewSyncLater(sourcePath, destPath) ==
    [ID |-> MakeID(sourcePath, destPath), SourcePath |-> sourcePath,
     DestinationPath |-> destPath, IsSyncing |-> FALSE, Paused |-> FALSE,
     LastSync |-> ZeroTime, NextSyncTime |-> Interval, Output |-> <<>>,
     LastError |-> ""]

\* a mutant of NewSync: last_sync is stamped with the creation instant
NewSyncStamped(sourcePath, destPath) ==
    [ID |-> MakeID(sourcePath, destPath), SourcePath |-> sourcePath,
     DestinationPath |-> destPath, IsSyncing |-> FALSE, Paused |-> FALSE,
     LastSync |-> Now, NextSyncTime |-> Now, Output |-> <<>>,
     LastError |-> ""]

\* NewSync(sourcePath, destPath, interval)
NewSync(sourcePath, destPath) ==
    [ID |-> MakeID(sourcePath, destPath), SourcePath |-> sourcePath,
     DestinationPath |-> destPath, IsSyncing |-> FALSE, Paused |-> FALSE,
     LastSync |-> ZeroTime, NextSyncTime |-> Now, Output |-> <<>>,
     LastError |-> ""]

\* Sync.GetStatus(): the copy of the fields taken under the read lock
GetStatus(s) ==
    [id |-> s.ID, source_path |-> s.SourcePath,
     destination_path |-> s.DestinationPath, is_syncing |-> s.IsSyncing,
     paused |-> s.Paused, last_sync |-> s.LastSync,
     next_sync_time |-> s.NextSyncTime, output |-> s.Output,
     last_error |-> s.LastError]

\* a mutant of setError: no line is added to the output
SetErrorNoLine(s, errMsg) == [s EXCEPT !.IsSyncing = FALSE, !.LastError = errMsg]

\* a mutant of setError: the running flag is left set
SetErrorStillSyncing(s, errMsg) ==
    [s EXCEPT !.LastError = errMsg, !.Output = Append(@, "Error: " \o errMsg)]

\* a mutant of setError: the failure is stamped as a sync
SetErrorStamped(s, errMsg) ==
    [s EXCEPT !.IsSyncing = FALSE, !.LastError = errMsg, !.LastSync = Now,
              !.Output = Append(@, "Error: " \o errMsg)]

\* Sync.setError(errMsg)
SetError(s, errMsg) ==
    [s EXCEPT !.IsSyncing = FALSE, !.LastError = errMsg,
              !.Output = Append(@, "Error: " \o errMsg)]

\* the locals of a loop goroutine that is outside an attempt's subprocess phase
NoProc ==
    [proc |-> "none", rOut |-> "none", rErr |-> "none", watch |-> "none",
     stop |-> 0, buf |-> <<>>, nOut |-> 0, nErr |-> 0]

\* the goroutine Sync.Start launches for task t, about to enter its loop;
\* n counts the attempts it has begun
NewLoop(t) ==
    [sync |-> t, pc |-> "top", wake |-> 0, ret |-> "none",
     touched |-> FALSE, spawned |-> FALSE, att |-> NoProc, orphans |-> {},
     n |-> 0]

\* no API call returned in the latest step; otherwise: the call, the id it
\* was given, the task it reached, its boolean result and what it returned
NoCall == [op |-> "none", id |-> <<>>, task |-> 0, found |-> FALSE, result |-> <<>>]

\* no registry call or status read is in progress; otherwise: the call, the
\* task it is at, the number of tasks it ranges over, the records it has
\* collected, and whether it holds the read lock of the task it is at,
\* with the fields it has copied so far
NoApi == [op |-> "none", i |-> 0, n |-> 0, acc |-> <<>>, lock |-> FALSE, part |-> <<>>]

\* a mutant of the task lock: every task shares one lock, which a task
\* keeps for the whole of its attempt
LockedShared(t) ==
    \/ api.lock /\ api.i = t
    \/ \E u \in 1..Len(Syncs) : u # t /\ Syncs[u].IsSyncing

\* a mutant of the task lock: writers do not wait for a reader
LockedNever(t) == FALSE

\* s.mu of task t is read-locked by a status read (part_004:351-352), so
\* that s.mu.Lock() has to wait
Locked(t) == api.lock /\ api.i = t

Tasks == 1..Len(Syncs)

Loops == 1..Len(loops)

\* SyncDirectories returns to the loop of Start
Return(l, value) == [l EXCEPT !.pc = "setnext", !.ret = value]

\* the steps of a loop goroutine and of the goroutines of its attempts:
\* they are no API call
Quiet == last' = NoCall /\ UNCHANGED <<config, boot, api, calls, envSrc>>

Internal == Quiet /\ UNCHANGED trig

\* part_004:287-303: the loop reads the schedule and the pause flag under
\* the read lock, then starts the back-off or the sleep until nextSync
LoopTop(g) ==
    /\ loops[g].pc = "top"
    /\ LET s == Syncs[loops[g].sync]
       IN  loops' = [loops EXCEPT ![g].pc = IF s.Paused THEN "backoff" ELSE "sleep",
                                  ![g].wake = IF s.Paused THEN Backoff
                                              ELSE IF s.NextSyncTime > Now
                                              THEN s.NextSyncTime ELSE 0]
    /\ UNCHANGED <<Syncs, copyVars>>
    /\ Internal

\* a mutant of the sleep: it is cut short when a run becomes due
LoopWakeWhenDue(g) ==
    /\ loops[g].pc \in {"backoff", "sleep"}
    /\ loops[g].wake = 0 \/ Syncs[loops[g].sync].NextSyncTime <= Now
    /\ loops' = [loops EXCEPT ![g].pc = IF loops[g].pc = "backoff" THEN "top" ELSE "recheck",
                              ![g].wake = 0]
    /\ UNCHANGED <<Syncs, copyVars>>
    /\ Internal

\* a mutant of the sleep: the back-off of a paused loop never ends
LoopWakeSleepOnly(g) ==
    /\ loops[g].pc = "sleep"
    /\ loops[g].wake = 0
    /\ loops' = [loops EXCEPT ![g].pc = "recheck"]
    /\ UNCHANGED <<Syncs, copyVars>>
    /\ Internal

\* part_004:294-295, 303: time.Sleep returns
LoopWake(g) ==
    /\ loops[g].pc \in {"backoff", "sleep"}
    /\ loops[g].wake = 0
    /\ loops' = [loops EXCEPT ![g].pc = IF loops[g].pc = "backoff" THEN "top" ELSE "recheck"]
    /\ UNCHANGED <<Syncs, copyVars>>
    /\ Internal

\* part_004:305-312: the pause flag is read again before the attempt
LoopRecheck(g) ==
    /\ loops[g].pc = "recheck"
    /\ loops' = [loops EXCEPT ![g].pc = IF Syncs[loops[g].sync].Paused
                                        THEN "top" ELSE "sd_paused"]
    /\ UNCHANGED <<Syncs, copyVars>>
    /\ Internal

\* a mutant of the schedule update: the next run is due at once
SetNextNow(s) == [s EXCEPT !.NextSyncTime = Now]

\* part_004:314-317: NextSyncTime = now + interval
SetNext(s) == [s EXCEPT !.NextSyncTime = Interval]

LoopSetNext(g) ==
    /\ loops[g].pc = "setnext"
    /\ ~Locked(loops[g].sync)
    /\ Syncs' = [Syncs EXCEPT ![loops[g].sync] = SetNext(@)]
    /\ loops' = [loops EXCEPT ![g].pc = "top", ![g].ret = "none",
                              ![g].touched = FALSE, ![g].spawned = FALSE]
    /\ UNCHANGED copyVars
    /\ Internal

\* a mutant of the paused return: it leaves a note in the output
SdPausedNoted(g) ==
    /\ loops[g].pc = "sd_paused"
    /\ ~Locked(loops[g].sync)
    /\ IF Syncs[loops[g].sync].Paused
       THEN /\ loops' = [loops EXCEPT ![g] = Return(@, "paused")]
            /\ Syncs' = [Syncs EXCEPT ![loops[g].sync].Output = Append(@, "Sync is paused")]
       ELSE /\ loops' = [loops EXCEPT ![g].pc = "sd_begin"]
            /\ Syncs' = Syncs
    /\ UNCHANGED copyVars
    /\ Internal

\* part_004:369-376: SyncDirectories returns nil at once when paused
SdPaused(g) ==
    /\ loops[g].pc = "sd_paused"
    /\ loops' = [loops EXCEPT ![g] = IF Syncs[loops[g].sync].Paused
                                     THEN Return(@, "paused")
                                     ELSE [@ EXCEPT !.pc = "sd_begin"]]
    /\ UNCHANGED <<Syncs, copyVars>>
    /\ Internal

\* a mutant of the attempt's start: the previous error is kept
BeginKeepingError(s) ==
    [s EXCEPT !.IsSyncing = TRUE, !.Output = <<"Starting sync">>]

\* part_004:378-383: the status update that starts an attempt
Begin(s) ==
    [s EXCEPT !.IsSyncing = TRUE, !.Output = <<"Starting sync">>, !.LastError = ""]

SdBegin(g) ==
    /\ loops[g].pc = "sd_begin"
    /\ ~Locked(loops[g].sync)
    /\ Syncs' = [Syncs EXCEPT ![loops[g].sync] = Begin(@)]
    /\ loops' = [loops EXCEPT ![g].pc = "sd_source",
                              ![g].n = IF @ < MaxAttempts THEN @ + 1 ELSE @]
    /\ trig' = [trig EXCEPT ![loops[g].sync] = FALSE]
    /\ UNCHANGED copyVars
    /\ Quiet

\* part_004:404-413: the return of an attempt that found the source empty
EmptySource(l) == Return(l, "empty")

\* a mutant of the empty-source update: last_sync is not stamped
EmptyDoneNoStamp(s) ==
    [s EXCEPT !.IsSyncing = FALSE,
              !.Output = Append(@, "Source directory is empty, nothing to sync")]

\* part_004:406-411: the status update of an attempt that found the source empty
EmptyDone(s) ==
    [s EXCEPT !.IsSyncing = FALSE, !.LastSync = Now,
              !.Output = Append(@, "Source directory is empty, nothing to sync")]

\* a mutant of the missing-source return: the destination is created first
SourceMissingMakingDest(l) == [Return(l, "srcMissing") EXCEPT !.touched = TRUE]

\* part_004:388-393: the return of an attempt whose source does not exist
SourceMissing(l) == Return(l, "srcMissing")

\* part_004:387-413: os.Stat(SourcePath) and isDirEmpty(SourcePath)
SdSource(g) ==
    /\ loops[g].pc = "sd_source"
    /\ \E found \in envSrc :
         LET t == loops[g].sync
         IN  CASE found = "missing" ->
                    /\ ~Locked(t)
                    /\ Syncs' = [Syncs EXCEPT ![t] = SetError(@, "Source path does not exist")]
                    /\ loops' = [loops EXCEPT ![g] = SourceMissing(@)]
               [] found = "error" ->
                    /\ ~Locked(t)
                    /\ Syncs' = [Syncs EXCEPT ![t] =
                                   SetError(@, "Error checking if source directory is empty")]
                    /\ loops' = [loops EXCEPT ![g] = Return(@, "probeError")]
               [] found = "empty" ->
                    /\ ~Locked(t)
                    /\ Syncs' = [Syncs EXCEPT ![t] = EmptyDone(@)]
                    /\ loops' = [loops EXCEPT ![g] = EmptySource(@)]
               [] found = "files" ->
                    /\ Syncs' = Syncs
                    /\ loops' = [loops EXCEPT ![g].pc = "sd_dest"]
    /\ UNCHANGED copyVars
    /\ Internal

\* part_004:415-429: os.Stat(DestinationPath), os.MkdirAll(DestinationPath, 0755)
SdDest(g) ==
    /\ loops[g].pc = "sd_dest"
    /\ \E dest \in {"exists", "created", "failed"} :
         LET t == loops[g].sync
         IN  CASE dest = "exists" ->
                    /\ Syncs' = Syncs
                    /\ loops' = [loops EXCEPT ![g].pc = "sd_look"]
               [] dest = "created" ->
                    /\ ~Locked(t)
                    /\ Syncs' = [Syncs EXCEPT ![t].Output =
                                   Append(@, "Created destination directory")]
                    /\ loops' = [loops EXCEPT ![g].pc = "sd_look", ![g].touched = TRUE]
               [] dest = "failed" ->
                    /\ ~Locked(t)
                    /\ Syncs' = [Syncs EXCEPT ![t] =
                                   SetError(@, "Failed to create destination directory")]
                    /\ loops' = [loops EXCEPT ![g] = Return(@, "mkdirFailed")]
    /\ UNCHANGED copyVars
    /\ Internal

\* part_004:431-437: exec.LookPath("rsync"); when it fails, setError
SdLook(g) ==
    /\ loops[g].pc = "sd_look"
    /\ \E found \in BOOLEAN :
         IF found
         THEN /\ Syncs' = Syncs
              /\ loops' = [loops EXCEPT ![g].pc = "sd_spawn"]
         ELSE /\ ~Locked(loops[g].sync)
              /\ Syncs' = [Syncs EXCEPT ![loops[g].sync] =
                             SetError(@, "rsync command not found")]
              /\ loops' = [loops EXCEPT ![g].pc = "sd_notool"]
    /\ UNCHANGED copyVars
    /\ Internal

\* part_004:438-443: the task is paused until manually resumed
SdNoTool(g) ==
    /\ loops[g].pc = "sd_notool"
    /\ ~Locked(loops[g].sync)
    /\ Syncs' = [Syncs EXCEPT ![loops[g].sync].Paused = TRUE]
    /\ loops' = [loops EXCEPT ![g] = Return(@, "toolNotFound")]
    /\ UNCHANGED copyVars
    /\ Internal

\* part_004:485-549: the locals of the subprocess phase: the process, the
\* output buffer (started from the task's output), the stopCmd channel
\* and the three goroutines
Spawned(output) ==
    [proc |-> "running", rOut |-> "reading", rErr |-> "reading", watch |-> "polling",
     stop |-> 0, buf |-> output, nOut |-> 0, nErr |-> 0]

\* part_004:446-549: the command, its pipes, cmd.Start(), the goroutines
SdSpawn(g) ==
    /\ loops[g].pc = "sd_spawn"
    /\ \E out \in {"ok", "stdout pipe", "stderr pipe", "start"} :
         LET t == loops[g].sync
         IN  IF out = "ok"
             THEN /\ Syncs' = Syncs
                  /\ loops' = [loops EXCEPT ![g].pc = "sd_select", ![g].spawned = TRUE,
                                            ![g].touched = TRUE,
                                            ![g].att = Spawned(Syncs[t].Output)]
             ELSE /\ ~Locked(t)
                  /\ Syncs' = [Syncs EXCEPT ![t] =
                                 SetError(@, IF out = "start" THEN "Failed to start rsync"
                                             ELSE "Failed to create " \o out)]
                  /\ loops' = [loops EXCEPT ![g] =
                                 Return(@, IF out = "start" THEN "startFailed" ELSE "pipeFailed")]
    /\ UNCHANGED copyVars
    /\ Internal

\* the subprocess exits by itself, with status 0 or not
ProcExit(g) ==
    /\ loops[g].att.proc = "running"
    /\ \E code \in {"exit0", "exitErr"} : loops' = [loops EXCEPT ![g].att.proc = code]
    /\ UNCHANGED <<Syncs, copyVars>>
    /\ Internal

Readers == {"rOut", "rErr"}

Count(r) == IF r = "rOut" THEN "nOut" ELSE "nErr"

Line(r) == IF r = "rOut" THEN "line" ELSE "ERROR: line"

\* part_004:521-531, 538-547: a reader appends a line to the buffer and
\* stores the buffer as the task's output
ReadLine(g, r) ==
    /\ loops[g].att[r] = "reading"
    /\ loops[g].att[Count(r)] < MaxLines
    /\ LET buf == Append(loops[g].att.buf, Line(r))
       IN  /\ loops' = [loops EXCEPT ![g].att.buf = buf, ![g].att[Count(r)] = @ + 1]
           /\ ~Locked(loops[g].sync)
           /\ Syncs' = [Syncs EXCEPT ![loops[g].sync].Output = buf]
    /\ UNCHANGED copyVars
    /\ Internal

\* part_004:521, 538: scanner.Scan() returns false once the process has
\* closed the stream; the reader goes on to send on done
ReaderEOF(g, r) ==
    /\ loops[g].att[r] = "reading"
    /\ loops[g].att.proc # "running"
    /\ loops' = [loops EXCEPT ![g].att[r] = "sending"]
    /\ UNCHANGED <<Syncs, copyVars>>
    /\ Internal

\* part_004:532, 548 with 565, 567: done is unbuffered; the attempt
\* receives a reader's signal in its select or in the receive after it
DoneToMain(g, r) ==
    /\ loops[g].att[r] = "sending"
    /\ loops[g].pc \in {"sd_select", "sd_wait2"}
    /\ loops' = [loops EXCEPT ![g].att[r] = "exited",
                              ![g].pc = IF loops[g].pc = "sd_select"
                                        THEN "sd_wait2" ELSE "sd_wait"]
    /\ UNCHANGED <<Syncs, copyVars>>
    /\ Internal

\* part_004:501-503 with 532, 548: the pause-watcher receives a reader's
\* signal in its own select on done, and returns
DoneToWatcher(g, r) ==
    /\ loops[g].att[r] = "sending"
    /\ loops[g].att.watch = "polling"
    /\ loops[g].pc \in {"sd_select", "sd_wait2", "sd_wait"}
    /\ loops' = [loops EXCEPT ![g].att[r] = "exited", ![g].att.watch = "exited"]
    /\ UNCHANGED <<Syncs, copyVars>>
    /\ Internal

\* part_004:504-513: on a tick the pause-watcher reads the pause flag and,
\* when it is set, sends on stopCmd (capacity 1) and returns
WatcherPoll(g) ==
    /\ loops[g].att.watch = "polling"
    /\ loops[g].pc \in {"sd_select", "sd_wait2", "sd_wait"}
    /\ IF Syncs[loops[g].sync].Paused
       THEN loops' = [loops EXCEPT ![g].att.watch = "exited", ![g].att.stop = 1]
       ELSE loops' = loops
    /\ UNCHANGED <<Syncs, copyVars>>
    /\ Internal

\* the goroutines of an attempt that has returned go on by themselves; a
\* group in which no reader can write any more forgets its buffer
Orphan(a) ==
    IF a.rOut = "reading" \/ a.rErr = "reading"
    THEN [a EXCEPT !.stop = 0]
    ELSE [a EXCEPT !.stop = 0, !.buf = <<>>, !.nOut = 0, !.nErr = 0]

\* whether some goroutine of the group has not returned
Alive(a) == a.rOut \in {"reading", "sending"} \/ a.rErr \in {"reading", "sending"}
               \/ a.watch = "polling"

\* the attempt returns from its subprocess phase: its goroutines stay behind
Leave(l, value) ==
    [Return(l, value) EXCEPT !.att = NoProc,
        !.orphans = IF Alive(l.att) THEN @ \cup {Orphan(l.att)} ELSE @]

\* cmd.Process.Kill()
Kill(proc) == IF proc = "running" THEN "killed" ELSE proc

\* a mutant of the stop path: the stop is stamped as a completed sync
StoppedStamped(s, buf) == [s EXCEPT !.Output = buf, !.IsSyncing = FALSE, !.LastSync = Now]

\* part_004:559-563: the status update of the stop path
Stopped(s, buf) == [s EXCEPT !.Output = buf, !.IsSyncing = FALSE]

\* part_004:553-564: the select takes the stop signal
SelectStop(g) ==
    /\ loops[g].pc = "sd_select"
    /\ loops[g].att.stop = 1
    /\ LET buf == Append(loops[g].att.buf, "Sync paused by user")
           a == [loops[g].att EXCEPT !.proc = Kill(@), !.buf = buf]
       IN  /\ ~Locked(loops[g].sync)
           /\ Syncs' = [Syncs EXCEPT ![loops[g].sync] = Stopped(@, buf)]
           /\ loops' = [loops EXCEPT ![g] = Leave([@ EXCEPT !.att = a], "stopped")]
    /\ UNCHANGED copyVars
    /\ Internal

\* part_004:585-590: the status update of a clean exit
Completed(s, buf) ==
    [s EXCEPT !.IsSyncing = FALSE, !.LastSync = Now,
              !.Output = Append(buf, "Sync completed successfully")]

\* part_004:569-593: cmd.Wait() and the classification of the exit status
SdWait(g) ==
    /\ loops[g].pc = "sd_wait"
    /\ loops[g].att.proc \in {"exit0", "exitErr", "killed"}
    /\ LET t == loops[g].sync
       IN  IF loops[g].att.proc = "exit0"
           THEN /\ ~Locked(t)
                /\ Syncs' = [Syncs EXCEPT ![t] = Completed(@, loops[g].att.buf)]
                /\ loops' = [loops EXCEPT ![g] = Leave(@, "ok")]
           ELSE /\ ~Locked(t)
                /\ Syncs' = [Syncs EXCEPT ![t] = SetError(@, "rsync error")]
                /\ loops' = [loops EXCEPT ![g] = Leave(@, "exitFailed")]
    /\ UNCHANGED copyVars
    /\ Internal

\* a reader left behind by a returned attempt still stores its buffer as
\* the task's output
OrphanReadLine(g, a, r) ==
    /\ a \in loops[g].orphans
    /\ a[r] = "reading"
    /\ a[Count(r)] < MaxLines
    /\ LET buf == Append(a.buf, Line(r))
           b == [a EXCEPT !.buf = buf, ![Count(r)] = @ + 1]
       IN  /\ loops' = [loops EXCEPT ![g].orphans = (@ \ {a}) \cup {Orphan(b)}]
           /\ ~Locked(loops[g].sync)
           /\ Syncs' = [Syncs EXCEPT ![loops[g].sync].Output = buf]
    /\ UNCHANGED copyVars
    /\ Internal

\* a reader left behind reaches the end of its stream and blocks on done,
\* which nobody receives from any more
OrphanEOF(g, a, r) ==
    /\ a \in loops[g].orphans
    /\ a[r] = "reading"
    /\ a.proc # "running"
    /\ loops' = [loops EXCEPT ![g].orphans = (@ \ {a}) \cup {Orphan([a EXCEPT ![r] = "sending"])}]
    /\ UNCHANGED <<Syncs, copyVars>>
    /\ Internal

\* a pause-watcher left behind keeps polling until it sees the pause flag
OrphanPoll(g, a) ==
    /\ a \in loops[g].orphans
    /\ a.watch = "polling"
    /\ IF Syncs[loops[g].sync].Paused
       THEN LET b == [a EXCEPT !.watch = "exited"]
            IN  loops' = [loops EXCEPT ![g].orphans =
                            IF Alive(b) THEN (@ \ {a}) \cup {b} ELSE @ \ {a}]
       ELSE loops' = loops
    /\ UNCHANGED <<Syncs, copyVars>>
    /\ Internal

\* the clock advances by one unit
Tick ==
    /\ Syncs' = [t \in Tasks |-> [Syncs[t] EXCEPT !.LastSync = Age(@),
                                                  !.NextSyncTime = Age(@)]]
    /\ loops' = [g \in Loops |-> [loops[g] EXCEPT !.wake = IF @ > 0 THEN @ - 1 ELSE 0]]
    /\ UNCHANGED copyVars
    /\ Internal

--------------------------------------------------------------------------
(* The registry (SyncManager), the startup routine and the API calls       *)

\* Sync.TriggerSync()
TriggerSync(s) == [s EXCEPT !.NextSyncTime = Now, !.Paused = FALSE]

\* Sync.PauseSync()
PauseSync(s) ==
    [s EXCEPT !.Paused = TRUE,
              !.Output = IF s.IsSyncing THEN Append(@, "Sync paused by user") ELSE @]

\* Sync.ResumeSync()
ResumeSync(s) ==
    [s EXCEPT !.Paused = FALSE, !.Output = Append(@, "Sync resumed by user")]

\* SyncManager.AddSync(sourcePath, destPath, interval): the registry after
\* the call; the task returned is its last element
AddSync(syncs, sourcePath, destPath) == Append(syncs, NewSync(sourcePath, destPath))

\* the index of the first task with that id, 0 when there is none: the
\* range loops of GetSyncByID, PauseSyncByID and ResumeSyncByID
FindByID(id) ==
    IF \E t \in Tasks : Syncs[t].ID = id
    THEN CHOOSE t \in Tasks : Syncs[t].ID = id /\ \A u \in 1..(t - 1) : Syncs[u].ID # id
    ELSE 0

\* the pairs a configuration file may hold: well formed, without a colon,
\* with two colons
Pairs == {<<"a", ":", "b">>, <<"a">>, <<"a", ":", "b", ":", "c">>}

\* the ids a request may name
RequestIDs == {<<"a", ":", "b">>, <<"c", ":", "d">>, <<"x">>}

\* part_004:686-697: StartSyncProcess takes the next pair, splits it and,
\* when it has two parts, adds the task; sm.mu.Lock() waits for the readers
BootAdd ==
    /\ boot.start = 0
    /\ boot.i <= Len(config)
    /\ LET parts == Split(config[boot.i], ":")
       IN  IF Len(parts) # 2
           THEN /\ boot' = [boot EXCEPT !.i = @ + 1]
                /\ UNCHANGED <<Syncs, trig>>
           ELSE /\ api.op = "none"
                /\ Syncs' = AddSync(Syncs, parts[1], parts[2])
                /\ trig' = Append(trig, FALSE)
                /\ boot' = [boot EXCEPT !.start = Len(Syncs')]
    /\ last' = NoCall
    /\ UNCHANGED <<loops, config, api, calls, envSrc, copyVars>>

\* a mutant of Start: two loop goroutines are launched
StartTwice(ls, t) == ls \o <<NewLoop(t), NewLoop(t)>>

\* part_004:284-285: Sync.Start launches the loop goroutine of the task
Start(ls, t) == Append(ls, NewLoop(t))

\* part_004:698: sync.Start(config.SyncInterval) on the task AddSync returned
BootStart ==
    /\ boot.start # 0
    /\ loops' = Start(loops, boot.start)
    /\ boot' = [i |-> boot.i + 1, start |-> 0]
    /\ last' = NoCall
    /\ UNCHANGED <<Syncs, trig, config, api, calls, envSrc, copyVars>>

\* part_004:673-675: TriggerAllSyncs takes the registry's read lock and
\* starts its range loop over the tasks registered at that moment
TriggerAllBegin ==
    /\ api.op = "none"
    /\ calls < MaxCalls
    /\ api' = [NoApi EXCEPT !.op = "TriggerAllSyncs", !.i = 1, !.n = Len(Syncs)]
    /\ calls' = calls + 1
    /\ last' = NoCall
    /\ UNCHANGED <<Syncs, trig, loops, config, boot, envSrc, copyVars>>

\* part_004:676-678: TriggerSync() on the next task, returned
TriggerAllStep ==
    /\ api.op = "TriggerAllSyncs"
    /\ api.i <= api.n
    /\ ~Locked(api.i)
    /\ Syncs' = [Syncs EXCEPT ![api.i] = TriggerSync(@)]
    /\ trig' = [trig EXCEPT ![api.i] = TRUE]
    /\ api' = [api EXCEPT !.i = @ + 1]
    /\ last' = [NoCall EXCEPT !.op = "TriggerSync", !.task = api.i, !.found = TRUE]
    /\ UNCHANGED <<loops, config, boot, calls, envSrc, copyVars>>

\* part_004:674, 679: the deferred RUnlock; TriggerAllSyncs returns
TriggerAllEnd ==
    /\ api.op = "TriggerAllSyncs"
    /\ api.i > api.n
    /\ api' = NoApi
    /\ last' = [NoCall EXCEPT !.op = "TriggerAllSyncs", !.task = api.n, !.found = TRUE]
    /\ UNCHANGED <<Syncs, trig, loops, config, boot, calls, envSrc, copyVars>>

\* a mutant of PauseSyncByID: when the id is found every task is paused
PauseSyncByIDAll(id) ==
    /\ calls < MaxCalls
    /\ calls' = calls + 1
    /\ LET t == FindByID(id)
       IN  /\ t # 0 => ~Locked(t)
           /\ Syncs' = IF t = 0 THEN Syncs ELSE [u \in Tasks |-> PauseSync(Syncs[u])]
           /\ last' = [NoCall EXCEPT !.op = "PauseSyncByID", !.id = id, !.task = t,
                                     !.found = t # 0]
    /\ UNCHANGED <<trig, loops, config, boot, api, envSrc, copyVars>>

\* SyncManager.PauseSyncByID(id)
PauseSyncByID(id) ==
    /\ calls < MaxCalls
    /\ calls' = calls + 1
    /\ LET t == FindByID(id)
       IN  /\ t # 0 => ~Locked(t)
           /\ Syncs' = IF t = 0 THEN Syncs ELSE [Syncs EXCEPT ![t] = PauseSync(@)]
           /\ last' = [NoCall EXCEPT !.op = "PauseSyncByID", !.id = id, !.task = t,
                                     !.found = t # 0]
    /\ UNCHANGED <<trig, loops, config, boot, api, envSrc, copyVars>>

\* SyncManager.ResumeSyncByID(id)
ResumeSyncByID(id) ==
    /\ calls < MaxCalls
    /\ calls' = calls + 1
    /\ LET t == FindByID(id)
       IN  /\ t # 0 => ~Locked(t)
           /\ Syncs' = IF t = 0 THEN Syncs ELSE [Syncs EXCEPT ![t] = ResumeSync(@)]
           /\ last' = [NoCall EXCEPT !.op = "ResumeSyncByID", !.id = id, !.task = t,
                                     !.found = t # 0]
    /\ UNCHANGED <<trig, loops, config, boot, api, envSrc, copyVars>>


\* a mutant of GetSyncByID: the first registered task, whatever its id
GetSyncByIDFirst(id) == IF Tasks = {} THEN 0 ELSE 1

\* SyncManager.GetSyncByID(id): the task found, 0 for nil
GetSyncByID(id) == FindByID(id)

\* part_002:249-260: handleSyncDetails looks the id up; nil is answered
\* with "Sync not found", a task with its GetStatus()
HandleSyncDetails(id) ==
    /\ api.op = "none"
    /\ calls < MaxCalls
    /\ calls' = calls + 1
    /\ LET t == GetSyncByID(id)
       IN  /\ last' = [NoCall EXCEPT !.op = "GetSyncByID", !.id = id, !.task = t,
                                     !.found = t # 0]
           /\ api' = IF t = 0 THEN NoApi ELSE [NoApi EXCEPT !.op = "GetStatus", !.i = t]
    /\ UNCHANGED <<Syncs, trig, loops, config, boot, envSrc, copyVars>>

\* a mutant of GetAllStatus: the range loop leaves out the first task
GetAllBeginSecond ==
    /\ api.op = "none"
    /\ calls < MaxCalls
    /\ calls' = calls + 1
    /\ api' = [NoApi EXCEPT !.op = "GetAllStatus", !.i = 2, !.n = Len(Syncs)]
    /\ last' = NoCall
    /\ UNCHANGED <<Syncs, trig, loops, config, boot, envSrc, copyVars>>

\* part_004:645-649: GetAllStatus takes the registry's read lock and makes
\* room for len(sm.Syncs) records
GetAllBegin ==
    /\ api.op = "none"
    /\ calls < MaxCalls
    /\ calls' = calls + 1
    /\ api' = [NoApi EXCEPT !.op = "GetAllStatus", !.i = 1, !.n = Len(Syncs)]
    /\ last' = NoCall
    /\ UNCHANGED <<Syncs, trig, loops, config, boot, envSrc, copyVars>>

\* part_004:351-359: GetStatus takes the task's read lock and copies the
\* first fields
StatusLock ==
    /\ api.op \in {"GetStatus", "GetAllStatus"}
    /\ api.i <= Len(Syncs)
    /\ api.op = "GetAllStatus" => api.i <= api.n
    /\ ~api.lock
    /\ api' = [api EXCEPT !.lock = TRUE, !.part = GetStatus(Syncs[api.i])]
    /\ last' = NoCall
    /\ UNCHANGED <<Syncs, trig, loops, config, boot, calls, envSrc, copyVars>>

\* the record a status read returns: the fields copied first, then the rest
Snapshot(part, s) ==
    [GetStatus(s) EXCEPT !.id = part.id, !.source_path = part.source_path,
                         !.destination_path = part.destination_path,
                         !.is_syncing = part.is_syncing, !.paused = part.paused]

\* a mutant of GetStatus: called by the handler, it returns the record
\* without releasing the read lock
StatusReturnHolding ==
    /\ api.lock
    /\ api.op # "none"
    /\ LET rec == Snapshot(api.part, Syncs[api.i])
       IN  /\ last' = [NoCall EXCEPT !.op = "GetStatus", !.task = api.i, !.found = TRUE,
                                     !.result = rec]
           /\ api' = IF api.op = "GetStatus" THEN [api EXCEPT !.op = "none"]
                     ELSE [api EXCEPT !.acc = Append(@, rec), !.i = @ + 1,
                                      !.lock = FALSE, !.part = <<>>]
    /\ UNCHANGED <<Syncs, trig, loops, config, boot, calls, envSrc, copyVars>>

\* part_004:360-365: GetStatus copies the remaining fields, releases the
\* lock and returns the record, to the handler or to GetAllStatus
StatusReturn ==
    /\ api.lock
    /\ LET rec == Snapshot(api.part, Syncs[api.i])
       IN  /\ last' = [NoCall EXCEPT !.op = "GetStatus", !.task = api.i, !.found = TRUE,
                                     !.result = rec]
           /\ api' = IF api.op = "GetStatus" THEN NoApi
                     ELSE [api EXCEPT !.acc = Append(@, rec), !.i = @ + 1,
                                      !.lock = FALSE, !.part = <<>>]
    /\ UNCHANGED <<Syncs, trig, loops, config, boot, calls, envSrc, copyVars>>

\* part_004:646, 654: the deferred RUnlock; GetAllStatus returns the records
GetAllEnd ==
    /\ api.op = "GetAllStatus"
    /\ api.i > api.n
    /\ api' = NoApi
    /\ last' = [NoCall EXCEPT !.op = "GetAllStatus", !.task = api.n, !.found = TRUE,
                              !.result = api.acc]
    /\ UNCHANGED <<Syncs, trig, loops, config, boot, calls, envSrc, copyVars>>

--------------------------------------------------------------------------
(* Specifications                                                          *)

\* the task engine at rest, for the specification of the first generation
EngineIdle ==
    /\ config = <<>>
    /\ boot = [i |-> 1, start |-> 0]
    /\ Syncs = <<>>
    /\ trig = <<>>
    /\ loops = <<>>
    /\ api = NoApi
    /\ calls = 0
    /\ last = NoCall
    /\ envSrc = {}

\* the first generation at rest, for the specifications of the task engine
CopyIdle ==
    /\ status = StatusInit
    /\ srcFS = [p \in Paths |-> None]
    /\ dstFS = srcFS
    /\ dst0 = srcFS
    /\ rsyncOK = FALSE
    /\ run = RunIdle

CopyInit ==
    /\ status = StatusInit
    /\ srcFS \in Trees
    /\ dstFS \in Trees
    /\ dst0 = dstFS
    /\ rsyncOK \in BOOLEAN
    /\ run = RunIdle
    /\ EngineIdle

CopyNext ==
    \/ OldBegin
    \/ OldCheckSource
    \/ OldMakeDest
    \/ OldLookPath
    \/ OldSpawn
    \/ OldRsync
    \/ CopyBegin
    \/ CopyWalk
    \/ CopyEnd

SpecCopy == CopyInit /\ [][CopyNext]_vars

\* main() before `go StartSyncProcess(syncManager, &config)`: an empty
\* registry (NewSyncManager) and the configuration that was loaded
Boot(cfg, env) ==
    /\ config = cfg
    /\ boot = [i |-> 1, start |-> 0]
    /\ Syncs = <<>>
    /\ trig = <<>>
    /\ loops = <<>>
    /\ api = NoApi
    /\ calls = 0
    /\ last = NoCall
    /\ envSrc = env
    /\ CopyIdle

\* one task, every outcome of the source probe
TaskInit == Boot(<<MakeID(<<"a">>, <<"b">>)>>, {"missing", "error", "empty", "files"})

\* the steps of the startup routine and of the API calls
Calls ==
    \/ BootAdd
    \/ BootStart
    \/ TriggerAllBegin
    \/ TriggerAllStep
    \/ TriggerAllEnd
    \/ \E id \in RequestIDs : PauseSyncByID(id)
    \/ \E id \in RequestIDs : ResumeSyncByID(id)

\* the steps of a loop up to the probe of the source
Cycle ==
    \/ \E g \in Loops : LoopTop(g)
    \/ \E g \in Loops : LoopWake(g)
    \/ \E g \in Loops : LoopRecheck(g)
    \/ \E g \in Loops : LoopSetNext(g)
    \/ \E g \in Loops : SdPaused(g)
    \/ \E g \in Loops : SdBegin(g)
    \/ \E g \in Loops : SdSource(g)

\* the steps of an attempt from the destination check on
Transfer ==
    \/ \E g \in Loops : SdDest(g)
    \/ \E g \in Loops : SdLook(g)
    \/ \E g \in Loops : SdNoTool(g)
    \/ \E g \in Loops : SdSpawn(g)
    \/ \E g \in Loops : ProcExit(g)
    \/ \E g \in Loops, r \in Readers : ReadLine(g, r)
    \/ \E g \in Loops, r \in Readers : ReaderEOF(g, r)
    \/ \E g \in Loops, r \in Readers : DoneToMain(g, r)
    \/ \E g \in Loops, r \in Readers : DoneToWatcher(g, r)
    \/ \E g \in Loops : WatcherPoll(g)
    \/ \E g \in Loops : SelectStop(g)
    \/ \E g \in Loops : SdWait(g)
    \/ \E g \in Loops : \E a \in loops[g].orphans, r \in Readers : OrphanReadLine(g, a, r)
    \/ \E g \in Loops : \E a \in loops[g].orphans, r \in Readers : OrphanEOF(g, a, r)
    \/ \E g \in Loops : \E a \in loops[g].orphans : OrphanPoll(g, a)

TaskNext == Calls \/ Cycle \/ Transfer \/ Tick

SpecTask == TaskInit /\ [][TaskNext]_vars

\* the configurations of up to MaxPairs pairs
Configs == UNION {[1..n -> Pairs] : n \in 0..MaxPairs}

\* any configuration; sources that are missing or empty
Init == \E cfg \in Configs : Boot(cfg, {"missing", "empty"})

Next == Calls \/ Cycle \/ Tick

Spec == Init /\ [][Next]_vars

\* the steps of the read-only API calls
Reads ==
    \/ \E id \in RequestIDs : HandleSyncDetails(id)
    \/ GetAllBegin
    \/ StatusLock
    \/ StatusReturn
    \/ GetAllEnd

\* the configurations of one or two well-formed pairs, alike or not
ReadConfigs ==
    UNION {[1..n -> {MakeID(<<"a">>, <<"b">>), MakeID(<<"c">>, <<"d">>)}] : n \in 1..MaxPairs}

ReadInit == \E cfg \in ReadConfigs : Boot(cfg, {"missing", "empty"})

ReadNext == Calls \/ Reads \/ Cycle

\* the registry with its read-only calls, within one unit of the clock:
\* start-up, the first attempt of every loop, and the API calls
SpecRead == ReadInit /\ [][ReadNext]_vars

--------------------------------------------------------------------------
(* Claims about the first generation, under SpecCopy *)

\* SyncDirectories has returned nil and no attempt is in progress
OldSucceeded == run.pc = "idle" /\ run.ret = "nil"

\* the destination entries that have no counterpart in the source
DestOnly == {p \in Paths \ {Root} : srcFS[p].kind = "none" /\ dst0[p].kind # "none"}

\* C1: no-delete.  After every successful attempt, by rsync or by the
\* fallback copy, the first or a repeated one, every destination entry
\* without a counterpart at the same relative path in the source still
\* exists with the content and the permission bits it had.
C1_NoDelete == OldSucceeded => \A p \in DestOnly : dstFS[p] = dst0[p]

\* C1 witness: a successful fallback copy that wrote to a destination
\* holding an entry the source does not have
C1_Witness ==
    /\ OldSucceeded
    /\ ~rsyncOK
    /\ DestOnly # {}
    /\ dstFS # dst0

\* C2: after a successful attempt on a non-empty source every file of the
\* source is in the destination at the same relative path with the same
\* content, and last_error is empty.
C2_AllCopied ==
    (OldSucceeded /\ ~IsEmptyDir(srcFS, Root)) =>
        /\ \A p \in Paths : srcFS[p].kind = "file" =>
              dstFS[p].kind = "file" /\ dstFS[p].data = srcFS[p].data
        /\ status.LastError = ""

\* C2 witness: a successful attempt that replaced a different file and
\* created a file in a directory the destination did not have
C2_Witness ==
    /\ OldSucceeded
    /\ srcFS["a"].kind = "file" /\ dst0["a"].kind = "file"
    /\ dst0["a"].data # srcFS["a"].data
    /\ srcFS["d/b"].kind = "file" /\ dst0["d"].kind = "none"

--------------------------------------------------------------------------
(* Claims about the task engine *)

\* the fairness the Go scheduler and the clock give: the startup routine,
\* a registry call in progress and every loop goroutine keep running, and
\* time passes
FairSpec ==
    /\ SpecTask
    /\ WF_vars(BootAdd \/ BootStart)
    /\ WF_vars(TriggerAllStep \/ TriggerAllEnd)
    /\ WF_vars(Cycle)
    /\ WF_vars(\E g \in Loops : SdDest(g) \/ SdLook(g) \/ SdNoTool(g) \/ SdSpawn(g)
                                  \/ SelectStop(g) \/ SdWait(g))
    /\ WF_vars(Tick)

\* the loop is inside SyncDirectories, past the status update that starts
\* the attempt
InAttempt(l) ==
    l.pc \in {"sd_source", "sd_dest", "sd_look", "sd_notool", "sd_spawn",
              "sd_select", "sd_wait2", "sd_wait"}

\* the loop has called SyncDirectories, which has not returned
InCall(l) == l.pc \in {"sd_paused", "sd_begin"} \/ InAttempt(l)

\* the loop is about to begin an attempt
Begins == \E g \in Loops : loops[g].pc = "sd_begin"

\* C3: periodic mirroring is live.  As long as the task is never paused:
\* the first schedule read of its loop finds nothing to wait for; an
\* attempt begins only when the previous one has returned (the running
\* flag is down); and when every attempt returns, attempts begin
\* infinitely often.
C3_Live ==
    [](\A t \in Tasks : ~Syncs[t].Paused) =>
        /\ [](\A g \in Loops : loops[g].n = 0 /\ loops[g].pc = "sleep" => loops[g].wake = 0)
        /\ [](\A g \in Loops : loops[g].pc = "sd_begin" => ~Syncs[loops[g].sync].IsSyncing)
        /\ ([]<>(\A g \in Loops : ~InCall(loops[g])) => []<>Begins)

\* C3 witness: a loop that was never found paused begins its second attempt
C3_Witness ==
    \E g \in Loops :
        /\ loops[g].pc = "sd_begin"
        /\ loops[g].n = 1
        /\ calls = 0

\* C4: is_syncing is true only while the task's own loop is inside an
\* attempt; so it is false before the first attempt and on every return
\* path of an attempt.
C4_SyncingOnlyInAttempt ==
    \A t \in Tasks :
        Syncs[t].IsSyncing => \E g \in Loops : loops[g].sync = t /\ InAttempt(loops[g])

\* C4 witness: an attempt has just returned through the stop path
C4_Witness ==
    \E g \in Loops :
        /\ loops[g].pc = "setnext"
        /\ loops[g].ret = "stopped"
        /\ ~Syncs[loops[g].sync].IsSyncing

\* C5: an attempt that finds the source empty returns without having
\* created or written the destination and without a subprocess, with
\* last_error empty, is_syncing false and last_sync stamped with the
\* current instant; a repeated attempt does the same.
C5_EmptySource ==
    [][\A g \in Loops :
         (loops[g].pc = "sd_source" /\ loops'[g].ret = "empty") =>
            /\ ~loops'[g].touched
            /\ ~loops'[g].spawned
            /\ Syncs'[loops[g].sync].LastError = ""
            /\ ~Syncs'[loops[g].sync].IsSyncing
            /\ Syncs'[loops[g].sync].LastSync = Now]_vars

\* C5 witness: the second attempt of a loop has returned from an empty
\* source
C5_Witness ==
    \E g \in Loops :
        /\ loops[g].pc = "setnext"
        /\ loops[g].ret = "empty"
        /\ loops[g].n = 2
        /\ Syncs[loops[g].sync].LastError = ""

\* C6: an attempt on a source path that does not exist ends with
\* is_syncing false and last_error set, and has neither created the
\* destination nor started a subprocess.
C6_SourceMissing ==
    \A g \in Loops :
        (loops[g].pc = "setnext" /\ loops[g].ret = "srcMissing") =>
            /\ ~Syncs[loops[g].sync].IsSyncing
            /\ Syncs[loops[g].sync].LastError # ""
            /\ ~loops[g].touched
            /\ ~loops[g].spawned

\* C6 witness: an attempt has returned because the source does not exist
C6_Witness ==
    \E g \in Loops :
        /\ loops[g].pc = "setnext"
        /\ loops[g].ret = "srcMissing"
        /\ Syncs[loops[g].sync].LastError = "Source path does not exist"

\* C7: when TriggerAllSyncs has just returned, a status read of every task
\* it went through whose trigger no attempt has taken up yet shows the
\* instant of the call (now, or the tick before) as next_sync_time,
\* whatever the loop was doing.
C7_TriggerObserved ==
    last.op = "TriggerAllSyncs" =>
        \A t \in 1..last.task :
            trig[t] => GetStatus(Syncs[t]).next_sync_time \in {Now, Past}

\* C8: after TriggerSync has returned, and until an attempt begins, the
\* loop at the top of its cycle reads a next_sync_time no later than the
\* trigger instant, so that it runs the attempt without an interval wait,
\* whatever it was doing when the trigger was issued.
C8_TriggerActedUpon ==
    \A g \in Loops :
        (loops[g].pc = "top" /\ trig[loops[g].sync]) =>
            Syncs[loops[g].sync].NextSyncTime <= Now

\* C9: for each task at most one call of SyncDirectories is in progress.
C9_OneAttempt ==
    \A t \in Tasks :
        Cardinality({g \in Loops : loops[g].sync = t /\ InCall(loops[g])}) <= 1

\* C9 witness: two tasks are inside an attempt at once, after an API call
C9_Witness ==
    /\ Len(Syncs) = 2
    /\ \A t \in Tasks : \E g \in Loops : loops[g].sync = t /\ InAttempt(loops[g])
    /\ calls > 0

\* C10: no two tasks of the registry have the same id.
C10_IdsUnique ==
    \A t, u \in Tasks : t # u => Syncs[t].ID # Syncs[u].ID

--------------------------------------------------------------------------
(* Claims about the registry's calls, under SpecRead *)

\* C11: GetSyncByID(id) returns nil exactly when no registered task has
\* that id, and otherwise a registered task with that id; the status read
\* of that task carries its own id and fields, not those of a default task.
C11_GetSyncByID ==
    /\ last.op = "GetSyncByID" =>
          /\ last.found = (\E t \in Tasks : Syncs[t].ID = last.id)
          /\ ~last.found => last.task = 0
          /\ last.found => /\ last.task \in Tasks
                           /\ GetStatus(Syncs[last.task]).id = last.id
    /\ (last.op = "GetStatus" /\ api.op = "none") =>
          /\ last.result.id = Syncs[last.task].ID
          /\ last.result.source_path = Syncs[last.task].SourcePath

\* C11 witness: the lookup found the second task by its id while that task
\* was inside an attempt
C11_Witness ==
    /\ last.op = "GetSyncByID"
    /\ last.found
    /\ last.task = 2
    /\ Syncs[2].IsSyncing

\* C12: PauseSyncByID(id) and ResumeSyncByID(id) return true exactly when a
\* task with that id is registered; then the paused flag of the task they
\* reached is set, respectively cleared, and no other task changes; when
\* they return false no task changes.
C12_ByIDFrame ==
    [][last'.op \in {"PauseSyncByID", "ResumeSyncByID"} =>
         /\ last'.found = (\E t \in Tasks : Syncs[t].ID = last'.id)
         /\ ~last'.found => Syncs' = Syncs
         /\ last'.found =>
               /\ last'.task \in Tasks
               /\ Syncs[last'.task].ID = last'.id
               /\ Syncs'[last'.task].Paused = (last'.op = "PauseSyncByID")
               /\ \A u \in Tasks \ {last'.task} : Syncs'[u] = Syncs[u]]_vars

\* C12 witness: of two registered tasks the second was paused by its id
\* and the first is not paused
C12_Witness ==
    /\ last.op = "PauseSyncByID"
    /\ last.found
    /\ last.task = 2
    /\ Syncs[2].Paused
    /\ ~Syncs[1].Paused

\* C13: GetAllStatus returns one record per registered task, in insertion
\* order: record i carries the id and the paths of task i, and when it is
\* taken it carries the is_syncing, paused, output and last_error task i
\* has at that moment.
C13_GetAllStatus ==
    /\ last.op = "GetAllStatus" =>
          /\ Len(last.result) = Len(Syncs)
          /\ \A i \in Tasks :
                /\ last.result[i].id = Syncs[i].ID
                /\ last.result[i].source_path = Syncs[i].SourcePath
                /\ last.result[i].destination_path = Syncs[i].DestinationPath
    /\ (last.op = "GetStatus" /\ api.op = "GetAllStatus") =>
          /\ Len(api.acc) = last.task
          /\ api.acc[last.task].id = Syncs[last.task].ID
          /\ api.acc[last.task].is_syncing = Syncs[last.task].IsSyncing
          /\ api.acc[last.task].paused = Syncs[last.task].Paused
          /\ api.acc[last.task].output = Syncs[last.task].Output
          /\ api.acc[last.task].last_error = Syncs[last.task].LastError

\* C13 witness: GetAllStatus returned the records of two different tasks,
\* the second of which had failed
C13_Witness ==
    /\ last.op = "GetAllStatus"
    /\ Len(last.result) = 2
    /\ last.result[1].id # last.result[2].id
    /\ last.result[2].last_error # ""

\* C14: every record GetStatus returns equals the fields the task has at
\* one instant, the one at which the read returns: no update of the task
\* falls between the first and the last field it copies.
C14_Snapshot ==
    last.op = "GetStatus" => last.result = GetStatus(Syncs[last.task])

\* C14 witness: a status read returned while the task was inside an
\* attempt whose next step is an update of the task
C14_Witness ==
    /\ last.op = "GetStatus"
    /\ last.result.is_syncing
    /\ \E g \in Loops : loops[g].sync = last.task /\ loops[g].pc = "sd_source"

\* sm.mu is read-locked by a registry call in progress (part_004:645-646,
\* 673-674)
RegistryLocked == api.op \in {"GetAllStatus", "TriggerAllSyncs"}

\* C15: the registry lock and a task lock are never held nested: no
\* registry call holds the registry lock while it holds a task's lock.
C15_NoNestedLocks == ~(RegistryLocked /\ api.lock)

--------------------------------------------------------------------------
(* Claims about the attempt, under SpecTask *)

\* C16: an attempt that passed the source and destination checks and did
\* not find the mirroring tool goes on with the fallback copier: it ends
\* with last_error empty and leaves the task neither failed nor paused.
C16_Fallback ==
    \A g \in Loops :
        loops[g].ret = "toolNotFound" =>
            /\ Syncs[loops[g].sync].LastError = ""
            /\ ~Syncs[loops[g].sync].Paused

\* the values SyncDirectories returns after a failure
Failures ==
    {"srcMissing", "probeError", "mkdirFailed", "toolNotFound", "pipeFailed",
     "startFailed", "exitFailed"}

--------------------------------------------------------------------------
(* Claims about two tasks side by side *)

\* two tasks with different ids, whose sources do not exist
PairInit ==
    Boot(<<MakeID(<<"a">>, <<"b">>), MakeID(<<"c">>, <<"d">>)>>, {"missing"})

PairNext == Calls \/ Reads \/ Cycle \/ Tick

SpecPair == PairInit /\ [][PairNext]_vars

\* the steps of the loop goroutine g
LoopStep(g) ==
    /\ g \in Loops
    /\ \/ LoopTop(g)
       \/ LoopWake(g)
       \/ LoopRecheck(g)
       \/ LoopSetNext(g)
       \/ SdPaused(g)
       \/ SdBegin(g)
       \/ SdSource(g)

\* the start-up routine, the API calls in progress, the clock and the loop
\* of the second task keep running; the loop of the first task may stop
\* for ever at any point, inside an attempt or outside
FairPair ==
    /\ SpecPair
    /\ WF_vars(BootAdd \/ BootStart)
    /\ WF_vars(TriggerAllStep \/ TriggerAllEnd \/ StatusLock \/ StatusReturn \/ GetAllEnd)
    /\ WF_vars(Tick)
    /\ WF_vars(LoopStep(2))

\* C18: tasks are independent.  Whatever the first task does, were its
\* attempt to fail or to block for ever, the loop of the second task, as
\* long as that task is not paused, begins attempts again and again, and
\* every registry call and status read in progress completes.
C18_Independent ==
    /\ [](Len(Syncs) >= 2 => ~Syncs[2].Paused)
          => []<>(Len(loops) >= 2 /\ loops[2].pc = "sd_begin")
    /\ (api.op # "none") ~> (api.op = "none")

\* C18 witness: the second task begins its second attempt while the first
\* task is still inside its first
C18_Witness ==
    /\ Len(loops) >= 2
    /\ loops[1].n = 1
    /\ InAttempt(loops[1])
    /\ Syncs[1].IsSyncing
    /\ loops[2].n = 1
    /\ loops[2].pc = "sd_begin"

--------------------------------------------------------------------------
(* Claims about the file copy of the first generation, under SpecCopy *)

\* the walk is about to visit the source file at p
Visiting(p) ==
    /\ run.pc = "walk"
    /\ run.i <= Len(WalkOrder)
    /\ WalkOrder[run.i] = p
    /\ srcFS[p].kind = "file"

\* C19: a copyFile that returns nil leaves dest with exactly the bytes of
\* src and the permission bits it was given, whatever dest held before,
\* and touches no other entry; the fallback walk gives it the mode of the
\* source file, so after a successful fallback copy every file of the
\* source is in the destination with its content and its permission bits.
C19_CopyFile ==
    /\ [][\A p \in Paths :
            (Visiting(p) /\ ~run'.err /\ run'.i = run.i + 1) =>
                /\ dstFS'[p] = File(srcFS[p].data, srcFS[p].mode)
                /\ \A q \in Paths \ {p} : dstFS'[q] = dstFS[q]]_vars
    /\ [](OldSucceeded /\ ~rsyncOK /\ ~IsEmptyDir(srcFS, Root) =>
            \A p \in Paths : srcFS[p].kind = "file" => dstFS[p] = srcFS[p])

\* C19 witness: a successful fallback copy over a file that had other
\* content and other permission bits
C19_Witness ==
    /\ OldSucceeded
    /\ ~rsyncOK
    /\ srcFS["a"].kind = "file" /\ dst0["a"].kind = "file"
    /\ dst0["a"].data # srcFS["a"].data
    /\ dst0["a"].mode # srcFS["a"].mode
    /\ dstFS["a"] = srcFS["a"]

--------------------------------------------------------------------------
(* Claims about the subprocess phase of an attempt *)

\* FairSpec, and the goroutines of an attempt keep running too: the ticker
\* of the pause-watcher fires, the readers read what there is to read, and
\* a signal on done is received by the attempt when it stays ready for it;
\* nothing makes the subprocess exit
FairRun ==
    /\ FairSpec
    /\ WF_vars(\E g \in Loops : WatcherPoll(g))
    /\ WF_vars(\E g \in Loops, r \in Readers : ReadLine(g, r))
    /\ WF_vars(\E g \in Loops, r \in Readers : ReaderEOF(g, r))
    /\ WF_vars(\E g \in Loops, r \in Readers : DoneToMain(g, r))

\* the attempt of loop g waits in its select or for the second reader, a
\* reader has not finished reading, and PauseSyncByID has just paused the
\* task
PausedWaiting(g) ==
    /\ g \in Loops
    /\ last.op = "PauseSyncByID"
    /\ last.task = loops[g].sync
    /\ loops[g].pc \in {"sd_select", "sd_wait2"}
    /\ Syncs[loops[g].sync].Paused
    /\ \E r \in Readers : loops[g].att[r] = "reading"

\* C20: mid-run cancellation.  When a task is paused while its attempt
\* waits on the subprocess and a reader has not finished, then, unless the
\* pause is lifted, the attempt returns.
C20_Cancellation ==
    \A g \in 1..MaxPairs :
        PausedWaiting(g) ~>
            (g \in Loops /\ (~Syncs[loops[g].sync].Paused \/ ~InAttempt(loops[g])))

--------------------------------------------------------------------------
(* Claims about the start-up routine *)

\* the pairs of Pairs, and pairs with an empty segment
BootPairs == Pairs \cup {<<":", "b">>, <<"a", ":">>}

BootConfigs == UNION {[1..n -> BootPairs] : n \in 0..MaxPairs}

BootInit == \E cfg \in BootConfigs : Boot(cfg, {"missing", "empty"})

BootNext == Calls \/ Cycle

\* the start-up routine on any configuration, the first attempts of the
\* loops it starts and the API calls
SpecBoot == BootInit /\ [][BootNext]_vars

\* the pair splits into exactly two non-empty segments
WellFormed(pair) ==
    LET parts == Split(pair, ":")
    IN  Len(parts) = 2 /\ parts[1] # <<>> /\ parts[2] # <<>>

\* StartSyncProcess has gone through every pair
BootDone == boot.i > Len(config) /\ boot.start = 0

\* C21: once the start-up routine has gone through the configuration, the
\* registered tasks are those of the pairs that split into exactly two
\* non-empty segments, in configuration order, and each has its loop.
C21_WellFormedOnly ==
    BootDone =>
        /\ [t \in Tasks |-> Syncs[t].ID] = SelectSeq(config, WellFormed)
        /\ [g \in Loops |-> loops[g].sync] = [t \in Tasks |-> t]

\* C22: a task built by NewSync / AddSync has the id source ":" dest and
\* the paths it was given, is neither running nor paused, has no error, a
\* zero last_sync, and a first run due at the instant of its creation, not
\* one interval later.
C22_NewTask ==
    [][Len(Syncs') = Len(Syncs) + 1 =>
         LET s == Syncs'[Len(Syncs')]
             parts == Split(config[boot.i], ":")
         IN  /\ s.ID = parts[1] \o <<":">> \o parts[2]
             /\ s.SourcePath = parts[1]
             /\ s.DestinationPath = parts[2]
             /\ ~s.IsSyncing
             /\ ~s.Paused
             /\ s.LastError = ""
             /\ s.LastSync = ZeroTime
             /\ s.NextSyncTime = Now
             /\ s.NextSyncTime # Now + Interval]_vars

\* C22 witness: the task of the pair "a:b" has just been built and its
\* loop is not started yet
C22_Witness ==
    /\ boot.start # 0
    /\ Syncs[boot.start].ID = <<"a", ":", "b">>
    /\ Syncs[boot.start].SourcePath = <<"a">>
    /\ Syncs[boot.start].NextSyncTime = Now

--------------------------------------------------------------------------
(* Claims about the goroutines of an attempt, under SpecTask *)

\* both readers of the attempt of loop g have sent their signal and returned
ReadersGone(g) == loops[g].att.rOut = "exited" /\ loops[g].att.rErr = "exited"

\* C23: the attempt receives both completion signals.  It is never left
\* waiting on the completion channel, in its select or in the receive
\* after it, when both readers have already sent their signal and
\* returned, so that nobody is left to send.
C23_BothSignals ==
    \A g \in Loops :
        ~(loops[g].pc \in {"sd_select", "sd_wait2"} /\ ReadersGone(g))

\* C24: an attempt that ends on the stop signal returns nil with the
\* running flag down, last_error still empty and last_sync as it was: the
\* pause is recorded neither as a failure nor as a completed sync.
C24_StopIsNoFailure ==
    [][\A g \in Loops :
         (loops[g].pc = "sd_select" /\ loops'[g].pc = "setnext") =>
             LET t == loops[g].sync
             IN  /\ loops'[g].ret = "stopped"
                 /\ ~Syncs'[t].IsSyncing
                 /\ Syncs[t].LastError = ""
                 /\ Syncs'[t].LastError = ""
                 /\ Syncs'[t].LastSync = Syncs[t].LastSync]_vars

\* C24 witness: the first attempt of a task has returned on the stop
\* signal after its subprocess had been started
C24_Witness ==
    \E g \in Loops :
        /\ loops[g].pc = "setnext"
        /\ loops[g].ret = "stopped"
        /\ loops[g].spawned
        /\ Syncs[loops[g].sync].Paused
        /\ Syncs[loops[g].sync].LastSync = ZeroTime

\* C25: a call of SyncDirectories that finds the task paused returns nil
\* at once and leaves every field of the task and the file system as they
\* were: nothing is created, written or run.
C25_PausedNoOp ==
    [][\A g \in Loops :
         (loops[g].pc = "sd_paused" /\ Syncs[loops[g].sync].Paused
            /\ loops'[g].pc # "sd_paused") =>
             /\ loops'[g] = Return(loops[g], "paused")
             /\ ~loops'[g].touched
             /\ ~loops'[g].spawned
             /\ Syncs' = Syncs
             /\ UNCHANGED <<srcFS, dstFS>>]_vars

\* C25 witness: a call made after a pause has returned without an attempt
C25_Witness ==
    \E g \in Loops :
        /\ loops[g].pc = "setnext"
        /\ loops[g].ret = "paused"
        /\ Syncs[loops[g].sync].Paused
        /\ ~Syncs[loops[g].sync].IsSyncing

\* C26: no attempt marks itself running while the task is paused.  The
\* status update that starts an attempt (running flag up, output and
\* last_error reset) is never made in a state where paused is true.
C26_NoBeginWhilePaused ==
    [][\A g \in Loops :
         (loops[g].pc = "sd_begin" /\ loops'[g].pc = "sd_source") =>
             ~Syncs[loops[g].sync].Paused]_vars

\* the sequence a is a prefix of the sequence b
IsPrefix(a, b) == Len(a) <= Len(b) /\ SubSeq(b, 1, Len(a)) = a

\* C27: the output of a task is append-only.  Every step that changes it,
\* whoever takes it, leaves a value of which the previous output is a
\* prefix.
C27_AppendOnly ==
    [][\A t \in Tasks : IsPrefix(Syncs[t].Output, Syncs'[t].Output)]_vars

--------------------------------------------------------------------------
(* The readers of an attempt, statement by statement *)

\* part_004:521-522, 538-539: scanner.Scan() returns a line
ScanLine(g, r) ==
    /\ loops[g].att[r] = "reading"
    /\ loops[g].att[Count(r)] < MaxLines
    /\ loops' = [loops EXCEPT ![g].att[r] = "writing", ![g].att[Count(r)] = @ + 1]
    /\ UNCHANGED <<Syncs, copyVars>>
    /\ Internal

\* the other reader of r
Other(r) == IF r = "rOut" THEN "rErr" ELSE "rOut"

\* part_004:523, 540: outputBuffer.WriteString(...), with no lock held.
\* strings.Builder is not safe for concurrent use: when the other reader is
\* inside its own WriteString, the line may be lost
WriteBuffer(g, r) ==
    /\ loops[g].att[r] = "writing"
    /\ \E kept \in IF loops[g].att[Other(r)] = "writing" THEN BOOLEAN ELSE {TRUE} :
         loops' = [loops EXCEPT ![g].att[r] = "storing",
                                ![g].att.buf = IF kept THEN Append(@, Line(r)) ELSE @]
    /\ UNCHANGED <<Syncs, copyVars>>
    /\ Internal

\* part_004:526-528, 544-546: s.Output = outputBuffer.String() under s.mu.Lock()
StoreOutput(g, r) ==
    /\ loops[g].att[r] = "storing"
    /\ ~Locked(loops[g].sync)
    /\ Syncs' = [Syncs EXCEPT ![loops[g].sync].Output = loops[g].att.buf]
    /\ loops' = [loops EXCEPT ![g].att[r] = "reading"]
    /\ UNCHANGED copyVars
    /\ Internal

\* one task whose source has files
RaceInit == Boot(<<MakeID(<<"a">>, <<"b">>)>>, {"files"})

\* the start-up routine, the loop and an attempt whose readers go statement
\* by statement; no API call is made
RaceNext ==
    \/ BootAdd
    \/ BootStart
    \/ Cycle
    \/ \E g \in Loops : SdDest(g)
    \/ \E g \in Loops : SdLook(g)
    \/ \E g \in Loops : SdNoTool(g)
    \/ \E g \in Loops : SdSpawn(g)
    \/ \E g \in Loops : ProcExit(g)
    \/ \E g \in Loops, r \in Readers : ScanLine(g, r)
    \/ \E g \in Loops, r \in Readers : WriteBuffer(g, r)
    \/ \E g \in Loops, r \in Readers : StoreOutput(g, r)
    \/ \E g \in Loops, r \in Readers : ReaderEOF(g, r)
    \/ \E g \in Loops, r \in Readers : DoneToMain(g, r)
    \/ \E g \in Loops, r \in Readers : DoneToWatcher(g, r)
    \/ \E g \in Loops : SdWait(g)
    \/ \E g \in Loops : \E a \in loops[g].orphans : OrphanPoll(g, a)
    \/ Tick

SpecRace == RaceInit /\ [][RaceNext]_vars

\* C28: the output buffer shared by the readers is written under the
\* task's lock, one goroutine at a time: the two readers are never inside
\* their write to the buffer at the same time.
C28_BufferUnderLock ==
    \A g \in Loops :
        ~(loops[g].att.rOut = "writing" /\ loops[g].att.rErr = "writing")

--------------------------------------------------------------------------
(* Claims about pause, resume and trigger *)

\* C29: every PauseSync sets paused and appends a note to the output, and
\* every ResumeSync clears paused and appends a note to the output, with
\* an attempt in flight or not.
C29_NoteAlways ==
    [][(last'.op \in {"PauseSyncByID", "ResumeSyncByID"} /\ last'.found) =>
         LET t == last'.task
         IN  /\ Syncs'[t].Paused = (last'.op = "PauseSyncByID")
             /\ Len(Syncs'[t].Output) = Len(Syncs[t].Output) + 1
             /\ IsPrefix(Syncs[t].Output, Syncs'[t].Output)]_vars

\* the loop g is blocked in a sleep whose deadline has not come
Sleeping(g) == loops[g].pc = "sleep" /\ loops[g].wake > 0

\* C30: a trigger does not cut a sleep short.  While the loop is blocked in
\* the sleep it computed from the previous nextSyncTime, no step takes it
\* out of the sleep or shortens it other than the clock, so no attempt
\* begins before the original deadline; a TriggerSync made in that time
\* leaves the loop as it is although the status shows the new
\* nextSyncTime at once.
C30_SleepNotCut ==
    [][\A g \in Loops :
         Sleeping(g) =>
             /\ loops'[g].pc = "sleep"
             /\ loops'[g].wake \in {loops[g].wake, loops[g].wake - 1}
             /\ (last'.op = "TriggerSync" /\ last'.task = loops[g].sync) =>
                   /\ loops'[g] = loops[g]
                   /\ GetStatus(Syncs'[loops[g].sync]).next_sync_time = Now]_vars

\* C30 witness: a trigger has been made while the loop sleeps until a later
\* deadline: the status shows a run due now and the loop still sleeps
C30_Witness ==
    \E g \in Loops :
        /\ Sleeping(g)
        /\ trig[loops[g].sync]
        /\ GetStatus(Syncs[loops[g].sync]).next_sync_time = Now

\* ResumeSync or TriggerSync has just returned on the task of loop g, which
\* is outside SyncDirectories
Unpaused(g) ==
    /\ g \in Loops
    /\ last.op \in {"ResumeSyncByID", "TriggerSync"}
    /\ last.task = loops[g].sync
    /\ ~InCall(loops[g])

\* C31: a paused task resumes.  Once ResumeSync or TriggerSync has cleared
\* the pause flag of a started task whose loop is in its back-off or
\* elsewhere outside an attempt, the loop begins an attempt, unless the
\* task is paused again first.
C31_Resumes ==
    \A g \in 1..MaxPairs :
        Unpaused(g) ~>
            (g \in Loops /\ (Syncs[loops[g].sync].Paused \/ loops[g].pc = "sd_begin"))

\* C31 witness: the flag has just been cleared while the loop is in the
\* back-off it takes when it finds the task paused
C31_Witness ==
    \E g \in Loops :
        /\ Unpaused(g)
        /\ loops[g].pc = "backoff"
        /\ ~Syncs[loops[g].sync].Paused

\* C32: after each call of SyncDirectories by the loop, nextSyncTime is set
\* to that instant plus the interval; and when no TriggerSync has come
\* since the previous attempt began, an attempt that is not the first
\* begins only when that instant has been reached.
C32_IntervalKept ==
    [][\A g \in Loops :
         LET t == loops[g].sync
         IN  /\ (loops[g].pc = "setnext" /\ loops'[g].pc # "setnext") =>
                    Syncs'[t].NextSyncTime = Now + Interval
             /\ (loops[g].pc = "sd_begin" /\ loops'[g].pc # "sd_begin"
                   /\ loops[g].n >= 1 /\ ~trig[t]) =>
                    Syncs[t].NextSyncTime <= Now]_vars

\* C32 witness: without any trigger, an attempt that is not the first is
\* about to begin, the instant set after the previous one having passed
C32_Witness ==
    \E g \in Loops :
        /\ loops[g].pc = "sd_begin"
        /\ loops[g].n >= 1
        /\ ~trig[loops[g].sync]
        /\ calls = 0
        /\ Syncs[loops[g].sync].NextSyncTime <= Now

\* C33: last_sync is stamped only by an attempt that ends as an
\* empty-source no-op or with a clean exit of the subprocess.  Apart from
\* the passing of time, every step that changes last_sync is such a return
\* and stamps the current instant; a return by a failure, by the stop
\* signal or as a paused no-op leaves it as it was.
C33_StampOnlyOnSuccess ==
    [][\A g \in Loops :
         LET t == loops[g].sync
             returns == loops[g].pc # "setnext" /\ loops'[g].pc = "setnext"
         IN  /\ Syncs'[t].LastSync \notin {Syncs[t].LastSync, Age(Syncs[t].LastSync)} =>
                    /\ returns
                    /\ loops'[g].ret \in {"empty", "ok"}
                    /\ Syncs'[t].LastSync = Now
             /\ (returns /\ loops'[g].ret \notin {"empty", "ok"}) =>
                    Syncs'[t].LastSync = Syncs[t].LastSync]_vars

\* C33 witness: an attempt has failed after an earlier one had stamped
\* last_sync, which still holds that earlier instant
C33_Witness ==
    \E g \in Loops :
        /\ loops[g].pc = "setnext"
        /\ loops[g].ret \in Failures
        /\ Syncs[loops[g].sync].LastSync = Past

--------------------------------------------------------------------------
(* Claims about errors in the fallback copy, under SpecCopy *)

\* the entry at position j of the walk
Entry(j) == WalkOrder[j]

\* C34: the first I/O error at an entry of the walk aborts the walk.  No
\* visit touches an entry that comes later in walk order; the visit that
\* fails ends the walk and leaves every entry before it in the
\* destination as the walk had made it; the attempt then ends without
\* touching the destination, with the running flag down, last_error set
\* and the error returned.
C34_WalkAborts ==
    [][/\ (run.pc = "walk" /\ run.i <= Len(WalkOrder)) =>
            \A j \in (run.i + 1)..Len(WalkOrder) : dstFS'[Entry(j)] = dstFS[Entry(j)]
       /\ (run.pc = "walk" /\ ~run.err /\ run'.err) =>
            /\ run'.i > Len(WalkOrder)
            /\ \A j \in 1..(run.i - 1) : dstFS'[Entry(j)] = dstFS[Entry(j)]
       /\ (run.pc = "walk" /\ run.err) =>
            /\ dstFS' = dstFS
            /\ run'.pc = "idle" /\ run'.ret = "err"
            /\ ~status'.IsSyncing
            /\ status'.LastError # ""]_vars

\* C34 witness: the walk has copied the file "a" over a different one, has
\* failed at the directory "d" because a file is in its place, and has
\* returned the error without copying "d/b"
C34_Witness ==
    /\ run.pc = "idle" /\ run.ret = "err"
    /\ status.LastError = "walk error"
    /\ srcFS["a"].kind = "file" /\ dst0["a"] # srcFS["a"] /\ dstFS["a"] = srcFS["a"]
    /\ srcFS["d"].kind = "dir" /\ dst0["d"].kind = "file"
    /\ srcFS["d/b"].kind = "file" /\ dstFS["d/b"].kind = "none"

--------------------------------------------------------------------------
(* Claims about the status of a task, under SpecTask *)

\* C35: a task is never both running and in error: in every state,
\* is_syncing true implies an empty last_error.
C35_RunningWithoutError ==
    \A t \in Tasks : Syncs[t].IsSyncing => Syncs[t].LastError = ""

\* C35 witness: a task is running its second attempt after a first one
\* that failed (no call was made, and nothing was ever stamped)
C35_Witness ==
    \E g \in Loops :
        /\ loops[g].n = 2
        /\ InAttempt(loops[g])
        /\ calls = 0
        /\ Syncs[loops[g].sync].IsSyncing
        /\ Syncs[loops[g].sync].LastSync = ZeroTime
        /\ Syncs[loops[g].sync].LastError = ""

\* C36: the pause flag is changed only by TriggerSync, PauseSync and
\* ResumeSync: every step that changes it is the return of one of these
\* calls on that task; no step of an attempt changes it.
C36_PausedOnlyByCalls ==
    [][\A t \in Tasks :
         Syncs'[t].Paused # Syncs[t].Paused =>
             /\ last'.op \in {"TriggerSync", "PauseSyncByID", "ResumeSyncByID"}
             /\ last'.task = t]_vars

--------------------------------------------------------------------------
(* Claims about the goroutines an attempt leaves behind, under SpecTask *)

\* C37: the goroutines of an attempt that has returned terminate.  None
\* of its readers is left blocked in its send on the completion channel
\* when the attempt has returned and the pause-watcher, the only other
\* receiver, has returned too.
C37_NoBlockedSender ==
    \A g \in Loops : \A a \in loops[g].orphans : \A r \in Readers :
        ~(a[r] = "sending" /\ a.watch = "exited")

\* C38: once an attempt has returned, no goroutine it spawned writes the
\* output of the task: a step of a goroutine left behind by a returned
\* attempt leaves the output as it is.
C38_NoLateWrite ==
    [][\A g \in Loops :
         (loops'[g].pc = loops[g].pc /\ loops'[g].att = loops[g].att
            /\ loops'[g].orphans # loops[g].orphans) =>
             Syncs'[loops[g].sync].Output = Syncs[loops[g].sync].Output]_vars

--------------------------------------------------------------------------
(* Claims about the locks *)

\* one task whose source is missing or has files
LockInit == Boot(<<MakeID(<<"a">>, <<"b">>)>>, {"missing", "files"})

\* the start-up routine, every API call, the loop and the whole attempt
\* with its goroutines, within one unit of the clock
LockNext == Calls \/ Reads \/ Cycle \/ Transfer

SpecLock == LockInit /\ [][LockNext]_vars

\* every goroutine that can take a step keeps running; nothing makes the
\* subprocess exit
FairLock ==
    /\ SpecLock
    /\ WF_vars(BootAdd \/ BootStart)
    /\ WF_vars(TriggerAllStep \/ TriggerAllEnd \/ StatusLock \/ StatusReturn \/ GetAllEnd)
    /\ WF_vars(Cycle)
    /\ WF_vars(\E g \in Loops : SdDest(g) \/ SdLook(g) \/ SdNoTool(g) \/ SdSpawn(g)
                                  \/ SelectStop(g) \/ SdWait(g))
    /\ WF_vars(\E g \in Loops, r \in Readers : ReadLine(g, r))

\* the loop g is at a critical section that writes the task: it waits for
\* the task's lock
WantsLock(g) == g \in Loops /\ loops[g].pc \in {"sd_begin", "setnext"}

\* C39: no deadlock on the locks; every acquisition is granted.  A
\* registry call or a status read in progress completes, so the registry's
\* read lock and the task's read lock are released; AddSync gets the
\* registry's write lock, so the start-up routine goes through every pair;
\* and a loop waiting for its task's write lock gets it.
C39_LocksGranted ==
    /\ (api.op # "none") ~> (api.op = "none")
    /\ api.lock ~> ~api.lock
    /\ ~BootDone ~> BootDone
    /\ \A g \in 1..MaxPairs : WantsLock(g) ~> ~WantsLock(g)

\* C39 witness: the loop waits for the write lock of its task while a
\* status read holds the read lock
C39_Witness ==
    \E g \in Loops : WantsLock(g) /\ Locked(loops[g].sync)

====
